---- MODULE Spec2Model ----
(***************************************************************************)
(* dhatless: turns a DHAT heap-profile report into a text or HTML listing  *)
(* of its allocation sites, leaving out the sites whose frame stack        *)
(* matches a keyword of the ignore file.                                   *)
(*                                                                         *)
(* Strings are sequences of one-character strings, so that splitting,      *)
(* trimming, substring search and HTML escaping are computed as the Go     *)
(* library computes them.  Go slices are 0-based: At0(s, i) is s[i].       *)
(*                                                                         *)
(* The state is the file system the tool reads (ignore file, report file,  *)
(* whether profile files can be created), the command line without -html,  *)
(* and the observable outcome of the invocation made with each output      *)
(* format (stdout, stderr, exit code).  One action, Run(html), is one      *)
(* whole execution of main().                                              *)
(***************************************************************************)
EXTENDS Integers, Sequences, FiniteSets, TLC

VARIABLES args, ignoreFile, reportFile, canCreate, results

vars == <<args, ignoreFile, reportFile, canCreate, results>>

\* ------------------------------------------------------------------------
\* Bounds of the model
\* ------------------------------------------------------------------------
\* program points of a document
MaxSites == 2
\* frame references of a document, over all its program points
MaxFrames == 3
\* characters of an ignore file
MaxFileLen == 3

\* ------------------------------------------------------------------------
\* Go library functions used by the program (package strings, package html)
\* ------------------------------------------------------------------------
At0(s, i) == s[i + 1]

InRange(s, i) == i >= 0 /\ i < Len(s)

HasPrefixAt(s, sep, i) ==
    /\ i + Len(sep) - 1 <= Len(s)
    /\ SubSeq(s, i, i + Len(sep) - 1) = sep

\* strings.Index, 1-based; 0 when sep does not occur in s
Index(s, sep) ==
    LET hits == {i \in 1..(Len(s) + 1) : HasPrefixAt(s, sep, i)}
    IN IF hits = {} THEN 0 ELSE CHOOSE i \in hits : \A k \in hits : i <= k

Contains(s, sub) == Index(s, sub) # 0

\* strings.Split(s, sep) for a non-empty sep: cut at every non-overlapping
\* occurrence of sep, left to right
RECURSIVE Split(_, _)
Split(s, sep) ==
    LET i == Index(s, sep)
    IN IF i = 0
       THEN <<s>>
       ELSE <<SubSeq(s, 1, i - 1)>> \o Split(SubSeq(s, i + Len(sep), Len(s)), sep)

RECURSIVE TrimLeft(_, _)
TrimLeft(s, cutset) ==
    IF s # <<>> /\ Head(s) \in cutset THEN TrimLeft(Tail(s), cutset) ELSE s

RECURSIVE TrimRight(_, _)
TrimRight(s, cutset) ==
    IF s # <<>> /\ s[Len(s)] \in cutset
    THEN TrimRight(SubSeq(s, 1, Len(s) - 1), cutset)
    ELSE s

\* strings.Trim(s, cutset)
Trim(s, cutset) == TrimRight(TrimLeft(s, cutset), cutset)

EscapeChar(c) ==
    CASE c = "&" -> <<"&", "a", "m", "p", ";">>
      [] c = "'" -> <<"&", "#", "3", "9", ";">>
      [] c = "<" -> <<"&", "l", "t", ";">>
      [] c = ">" -> <<"&", "g", "t", ";">>
      [] c = "\"" -> <<"&", "#", "3", "4", ";">>
      [] OTHER -> <<c>>

\* html.EscapeString
RECURSIVE EscapeString(_)
EscapeString(s) ==
    IF s = <<>> THEN <<>> ELSE EscapeChar(Head(s)) \o EscapeString(Tail(s))

Sep == <<":", " ">>
NL == "\n"
\* mutant of Blank: the tab is forgotten in the cutset
BlankSpaceOnly == {" "}

Blank == {" ", "\t"}

\* ------------------------------------------------------------------------
\* parseIgnoreFile
\* ------------------------------------------------------------------------
Unreadable == [readable |-> FALSE, content |-> <<>>]
File(content) == [readable |-> TRUE, content |-> content]

RECURSIVE KeepLines(_)
KeepLines(lines) ==
    IF lines = <<>>
    THEN <<>>
    ELSE LET line == Trim(Head(lines), Blank)
         IN IF line = <<>>
            THEN KeepLines(Tail(lines))
            ELSE IF line[1] = "#"
                 THEN KeepLines(Tail(lines))
                 ELSE <<line>> \o KeepLines(Tail(lines))

\* result: err is "nil" or "io"; list is the keyword list
parseIgnoreFile(file, fsIgnore) ==
    IF file = ""
    THEN [err |-> "nil", list |-> <<>>]
    ELSE IF ~fsIgnore.readable
         THEN [err |-> "io", list |-> <<>>]
         ELSE [err |-> "nil", list |-> KeepLines(Split(fsIgnore.content, <<NL>>))]

\* ------------------------------------------------------------------------
\* Report, ProgramPoint and their decoding (parseReport, encoding/json)
\* ------------------------------------------------------------------------
TopFields == {"dhatFileVersion", "mode", "verb", "bklt", "bkacc", "tu",
              "cmd", "pid", "te", "pps", "ftbl"}
SiteFields == {"tb", "tbk", "fs"}

dhatVersion == 2

\* values the documents of the model carry in their display-only fields
DocValues ==
    [mode |-> <<"h">>, verb |-> <<"v">>, tu |-> <<"i">>, cmd |-> <<"c">>,
     pid |-> 7, te |-> 9]

\* json.Decoder.Decode into a ProgramPoint: a key the object lacks leaves
\* the field at its zero value
ProgramPoint(d) ==
    [TotalBytes |-> IF "tb" \in d.has THEN d.tb ELSE 0,
     TotalBlocks |-> IF "tbk" \in d.has THEN d.tbk ELSE 0,
     Frames |-> IF "fs" \in d.has THEN d.fs ELSE <<>>]

\* json.Decoder.Decode into a Report
Report(d) ==
    [Version |-> IF "dhatFileVersion" \in d.has THEN d.v ELSE 0,
     InvocationMode |-> IF "mode" \in d.has THEN DocValues.mode ELSE <<>>,
     StackFrameVerb |-> IF "verb" \in d.has THEN DocValues.verb ELSE <<>>,
     BlockLifetimesRecorded |-> "bklt" \in d.has,
     BlockAccessesRecorded |-> "bkacc" \in d.has,
     TimeUnit |-> IF "tu" \in d.has THEN DocValues.tu ELSE <<>>,
     Cmd |-> IF "cmd" \in d.has THEN DocValues.cmd ELSE <<>>,
     PID |-> IF "pid" \in d.has THEN DocValues.pid ELSE 0,
     TimeAtEnd |-> IF "te" \in d.has THEN DocValues.te ELSE 0,
     ProgramPoints |-> IF "pps" \in d.has
                       THEN [k \in 1..Len(d.pps) |-> ProgramPoint(d.pps[k])]
                       ELSE <<>>,
     FramesTable |-> IF "ftbl" \in d.has THEN d.ftbl ELSE <<>>]

EmptyReport == Report([has |-> {}])

\* mutant of parseReport: the decoder rejects a document that lacks a field
parseReportStrict(fsReport) ==
    IF ~fsReport.readable
    THEN [err |-> "io", report |-> EmptyReport]
    ELSE IF ~fsReport.valid
            \/ fsReport.doc.has # TopFields
            \/ \E k \in 1..Len(fsReport.doc.pps) : fsReport.doc.pps[k].has # SiteFields
         THEN [err |-> "decode", report |-> EmptyReport]
         ELSE [err |-> "nil", report |-> Report(fsReport.doc)]

\* result: err is "nil", "io" (os.Open failed) or "decode"
parseReport(fsReport) ==
    IF ~fsReport.readable
    THEN [err |-> "io", report |-> EmptyReport]
    ELSE IF ~fsReport.valid
         THEN [err |-> "decode", report |-> EmptyReport]
         ELSE [err |-> "nil", report |-> Report(fsReport.doc)]

\* ------------------------------------------------------------------------
\* Frame resolution and the ignore filter.  An index expression out of
\* range is a run-time panic, reported as panic |-> TRUE.
\* ------------------------------------------------------------------------
Panic == [panic |-> TRUE, val |-> <<>>]
Value(v) == [panic |-> FALSE, val |-> v]

\* strings.Split(r.FramesTable[i], ": ")[1]
GetFrame(r, i) ==
    IF ~InRange(r.FramesTable, i)
    THEN Panic
    ELSE LET parts == Split(At0(r.FramesTable, i), Sep)
         IN IF Len(parts) < 2 THEN Panic ELSE Value(parts[2])

\* the loop of ProgramPointHasFrame from position k of the frame list:
\* "true", "false" or "panic"
RECURSIVE HasFrameFrom(_, _, _, _)
HasFrameFrom(r, frames, s, k) ==
    IF k >= Len(frames)
    THEN "false"
    ELSE LET frame == At0(frames, k)
         IN IF ~InRange(r.FramesTable, frame)
            THEN "panic"
            ELSE LET parts == Split(At0(r.FramesTable, frame), Sep)
                 IN IF Len(parts) < 2
                    THEN "panic"
                    ELSE IF Contains(parts[2], s)
                         THEN "true"
                         ELSE HasFrameFrom(r, frames, s, k + 1)

\* mutant of ProgramPointHasFrame: every frame of the site is resolved
\* before the first one is compared
ProgramPointHasFrameResolveAll(r, i, s) ==
    LET frames == At0(r.ProgramPoints, i).Frames
    IN IF \E k \in 1..Len(frames) : GetFrame(r, frames[k]).panic
       THEN "panic"
       ELSE HasFrameFrom(r, frames, s, 0)

ProgramPointHasFrame(r, i, s) ==
    HasFrameFrom(r, At0(r.ProgramPoints, i).Frames, s, 0)

\* the loop of shouldIgnore from keyword k of the list
RECURSIVE ShouldIgnoreFrom(_, _, _, _)
ShouldIgnoreFrom(r, frame, ignoreList, k) ==
    IF k >= Len(ignoreList)
    THEN "false"
    ELSE LET h == ProgramPointHasFrame(r, frame, At0(ignoreList, k))
         IN IF h = "false"
            THEN ShouldIgnoreFrom(r, frame, ignoreList, k + 1)
            ELSE h

shouldIgnore(r, frame, ignoreList) == ShouldIgnoreFrom(r, frame, ignoreList, 0)

\* ------------------------------------------------------------------------
\* Output.  stdout is the sequence of lines written; a line records which
\* Printf wrote it (kind), its numbers and its text.  pp is bookkeeping of
\* the model: the index of the program point the line was written for
\* (-1 for the lines outside the loop); the program does not print it.
\* ------------------------------------------------------------------------
Line(kind, n, m, text, pp) ==
    [kind |-> kind, n |-> n, m |-> m, text |-> text, pp |-> pp]

Mark(kind) == Line(kind, 0, 0, <<>>, -1)

\* the frame loop of one program point, from index j down to 0
RECURSIVE RenderFrames(_, _, _, _, _)
RenderFrames(r, i, outputHtml, j, out) ==
    IF j < 0
    THEN [panic |-> FALSE, out |-> out]
    ELSE LET g == GetFrame(r, At0(At0(r.ProgramPoints, i).Frames, j))
         IN IF g.panic
            THEN [panic |-> TRUE, out |-> out]
            ELSE LET frame == IF outputHtml THEN EscapeString(g.val) ELSE g.val
                 IN RenderFrames(r, i, outputHtml, j - 1,
                                 Append(out, Line("frame", 0, 0, frame, i)))

\* mutant of SiteFrames: the frames are written from the first to the last
RECURSIVE RenderFramesUp(_, _, _, _, _)
RenderFramesUp(r, i, outputHtml, j, out) ==
    IF j >= Len(At0(r.ProgramPoints, i).Frames)
    THEN [panic |-> FALSE, out |-> out]
    ELSE LET g == GetFrame(r, At0(At0(r.ProgramPoints, i).Frames, j))
         IN IF g.panic
            THEN [panic |-> TRUE, out |-> out]
            ELSE LET frame == IF outputHtml THEN EscapeString(g.val) ELSE g.val
                 IN RenderFramesUp(r, i, outputHtml, j + 1,
                                   Append(out, Line("frame", 0, 0, frame, i)))

SiteFramesForward(r, i, outputHtml, out) == RenderFramesUp(r, i, outputHtml, 0, out)

\* the frame lines of program point i, last frame of fs first
SiteFrames(r, i, outputHtml, out) ==
    RenderFrames(r, i, outputHtml, Len(At0(r.ProgramPoints, i).Frames) - 1, out)

\* mutant of SiteHeader: the counter is incremented before it is printed
SiteHeaderCountFirst(outputHtml, allocCount, i) ==
    Line(IF outputHtml THEN "details" ELSE "allocation", allocCount + 1, 0, <<>>, i)

\* mutant of SiteHeader: the HTML summary shows the position of the program
\* point in pps instead of the display counter
SiteHeaderHtmlByIndex(outputHtml, allocCount, i) ==
    Line(IF outputHtml THEN "details" ELSE "allocation",
         IF outputHtml THEN i + 1 ELSE allocCount, 0, <<>>, i)

\* the line that opens a site, with its display counter
SiteHeader(outputHtml, allocCount, i) ==
    Line(IF outputHtml THEN "details" ELSE "allocation", allocCount, 0, <<>>, i)

\* the loop over report.ProgramPoints, from index i
RECURSIVE RenderLoop(_, _, _, _, _, _)
RenderLoop(r, ignoreList, outputHtml, i, allocCount, out) ==
    IF i >= Len(r.ProgramPoints)
    THEN [panic |-> FALSE, out |-> out]
    ELSE LET ig == shouldIgnore(r, i, ignoreList)
             pp == At0(r.ProgramPoints, i)
         IN IF ig = "panic"
            THEN [panic |-> TRUE, out |-> out]
            ELSE IF ig = "true"
                 THEN RenderLoop(r, ignoreList, outputHtml, i + 1, allocCount, out)
                 ELSE LET head ==
                              out
                              \o <<SiteHeader(outputHtml, allocCount, i)>>
                              \o <<Line("stats", pp.TotalBytes, pp.TotalBlocks, <<>>, i)>>
                              \o (IF outputHtml THEN <<Line("p-pre", 0, 0, <<>>, i)>>
                                  ELSE <<>>)
                          fr == SiteFrames(r, i, outputHtml, head)
                      IN IF fr.panic
                         THEN fr
                         ELSE RenderLoop(r, ignoreList, outputHtml, i + 1,
                                         allocCount + 1,
                                         fr.out
                                         \o (IF outputHtml
                                             THEN <<Line("details-end", 0, 0, <<>>, i)>>
                                             ELSE <<>>))

\* the metadata header of mainErr
Header(r, outputHtml) ==
    (IF outputHtml THEN <<Mark("htmlHeader"), Mark("br-pre")>> ELSE <<>>)
    \o <<Line("Command", 0, 0, r.Cmd, -1),
         Line("PID", r.PID, 0, <<>>, -1),
         Line("Mode", 0, 0, r.InvocationMode, -1),
         Line("t-end", r.TimeAtEnd, 0, r.TimeUnit, -1)>>
    \o (IF outputHtml THEN <<Mark("pre-end")>> ELSE <<>>)

\* ------------------------------------------------------------------------
\* mainErr and main
\* ------------------------------------------------------------------------
Msg(prefix, msg) == [prefix |-> prefix, msg |-> msg]

Outcome(err, stdout, stderr, ignoreList) ==
    [err |-> err, stdout |-> stdout, stderr |-> stderr, ignoreList |-> ignoreList]

\* mutant of VersionUnsupported: only older versions are rejected
VersionTooOld(r) == r.Version < dhatVersion

\* the version check of mainErr
VersionUnsupported(r) == r.Version # dhatVersion

\* mainErr from parseIgnoreFile to its last return; err is "nil", an error
\* kind, or "panic"
Process(a, outputHtml, fsIgnore, fsReport) ==
    LET ig == parseIgnoreFile(a.i, fsIgnore)
        pr == parseReport(fsReport)
        r == pr.report
        loop == RenderLoop(r, ig.list, outputHtml, 0, 1, Header(r, outputHtml))
    IN IF ig.err # "nil"
       THEN Outcome(ig.err, <<>>, <<>>, <<>>)
       ELSE IF pr.err # "nil"
            THEN Outcome(pr.err, <<>>, <<>>, ig.list)
            ELSE IF VersionUnsupported(r)
                 THEN Outcome("version", <<>>, <<>>, ig.list)
                 ELSE IF loop.panic
                      THEN Outcome("panic", loop.out, <<>>, ig.list)
                      ELSE Outcome("nil",
                                   loop.out \o (IF outputHtml
                                                THEN <<Mark("htmlFooter")>>
                                                ELSE <<>>),
                                   <<>>, ig.list)

\* the deferred function that writes the memory profile: it runs on every
\* way out of mainErr after it was registered, a panic included
Deferred(a, create, o) ==
    IF a.memProfile /\ ~create
    THEN [o EXCEPT !.stderr = Append(@, Msg("error:", "io"))]
    ELSE o

mainErr(a, outputHtml, fsIgnore, fsReport, create) ==
    IF a.parse = "help"
    THEN Outcome("nil", <<>>, <<Msg("", "usage")>>, <<>>)
    ELSE IF a.parse = "err"
    THEN Outcome("flag", <<>>, <<Msg("", "flag"), Msg("", "usage")>>, <<>>)
    ELSE IF a.printVersion
    THEN Outcome("nil", <<Mark("version")>>, <<>>, <<>>)
    ELSE IF a.narg # 1
    THEN Outcome("usage", <<>>, <<Msg("", "usage")>>, <<>>)
    ELSE IF a.cpuProfile /\ ~create
    THEN Outcome("io", <<>>, <<>>, <<>>)
    ELSE Deferred(a, create, Process(a, outputHtml, fsIgnore, fsReport))

\* main: what the process leaves behind.  An error is printed with the
\* "error:" prefix and exits with 1; a panic that nothing recovers is
\* printed by the Go runtime and exits with 2.
main(a, outputHtml, fsIgnore, fsReport, create) ==
    LET o == mainErr(a, outputHtml, fsIgnore, fsReport, create)
    IN [ran |-> TRUE,
        err |-> o.err,
        stdout |-> o.stdout,
        stderr |-> IF o.err = "nil"
                   THEN o.stderr
                   ELSE IF o.err = "panic"
                        THEN Append(o.stderr, Msg("panic:", "index out of range"))
                        ELSE Append(o.stderr, Msg("error:", o.err)),
        exit |-> IF o.err = "nil" THEN 0 ELSE IF o.err = "panic" THEN 2 ELSE 1,
        ignoreList |-> o.ignoreList]

\* ------------------------------------------------------------------------
\* The inputs the model runs the program on
\* ------------------------------------------------------------------------
BoundedSeqs(S, n) == UNION {[1..k -> S] : k \in 0..n}

\* frame tables of two entries: plain entries, one of them with a character
\* that HTML escapes; an entry with two separators; an entry without
\* separator
FrameTables ==
    {<< <<"x", ":", " ", "a">>, <<"x", ":", " ", "<", "b">> >>,
     << <<"x", ":", " ", "a">>, <<"x", ":", " ", "a", ":", " ", "b">> >>,
     << <<"x", ":", " ", "a">>, <<"b">> >>}

\* frame indices of the documents: 0 and 1 are entries of the table, 2 is
\* past its end
FrameIdx == 0..2

IgnoreFiles ==
    {File(<<"a">>),
     File(<<"b">>),
     File(<<"b", NL, "a">>),
     File(<<"&">>)}

\* the ignore file of the usage text: "  foo  ", "#comment", "", "bar"
ExampleFile ==
    File(<<" ", " ", "f", "o", "o", " ", " ", NL,
           "#", "c", "o", "m", "m", "e", "n", "t", NL,
           NL,
           "b", "a", "r">>)

IgnoreAlphabet == {"a", " ", "\t", "#", NL}

SiteDoc(has, tb, fs) == [has |-> has, tb |-> tb, tbk |-> 1, fs |-> fs]

Doc(has, v, pps, ftbl) == [has |-> has, v |-> v, pps |-> pps, ftbl |-> ftbl]

ReportFile(doc) == [readable |-> TRUE, valid |-> TRUE, doc |-> doc]
NoDoc == Doc({}, 0, <<>>, <<>>)
UnreadableReport == [readable |-> FALSE, valid |-> FALSE, doc |-> NoDoc]
InvalidReport == [readable |-> TRUE, valid |-> FALSE, doc |-> NoDoc]

\* the lists of n frame lists with at most budget frame references in all
RECURSIVE FrameListsOf(_, _)
FrameListsOf(n, budget) ==
    IF n = 0
    THEN {<<>>}
    ELSE UNION {{<<fs>> \o rest : rest \in FrameListsOf(n - 1, budget - Len(fs))} :
                  fs \in BoundedSeqs(FrameIdx, budget)}

\* the frame lists of the documents: at most MaxSites program points with
\* at most MaxFrames frame references between them
FrameLists == UNION {FrameListsOf(n, MaxFrames) : n \in 0..MaxSites}

\* documents with every field: the k-th program point has tb = k
FullDocs ==
    {Doc(TopFields, dhatVersion,
         [k \in 1..Len(fss) |-> SiteDoc(SiteFields, k, fss[k])], ftbl) :
       fss \in FrameLists, ftbl \in FrameTables}

PlainTable == << <<"x", ":", " ", "a">>, <<"x", ":", " ", "b">> >>

\* documents of two program points that lack at most one field, at the top
\* level or in the first program point
SparseDocs ==
    {Doc(top, v, <<SiteDoc(site, 1, <<0, 1>>), SiteDoc(SiteFields, 2, <<1>>)>>,
         PlainTable) :
       top \in {TopFields} \cup {TopFields \ {f} : f \in TopFields},
       site \in {SiteFields} \cup {SiteFields \ {f} : f \in SiteFields},
       v \in {dhatVersion, dhatVersion + 1}}

OneLack(d) ==
    Cardinality(TopFields \ d.has) + Cardinality(SiteFields \ d.pps[1].has) <= 1

PlainArgs(i) ==
    [parse |-> "ok", printVersion |-> FALSE, narg |-> 1, i |-> i,
     cpuProfile |-> FALSE, memProfile |-> FALSE]

AllArgs ==
    [parse : {"ok", "err", "help"}, printVersion : BOOLEAN, narg : 0..2,
     i : {"", "ignore"}, cpuProfile : BOOLEAN, memProfile : BOOLEAN]

NoResult ==
    [ran |-> FALSE, err |-> "nil", stdout |-> <<>>, stderr |-> <<>>,
     exit |-> 0, ignoreList |-> <<>>]

\* every command line, on a few report files
InitArgs ==
    /\ args \in AllArgs
    /\ canCreate \in BOOLEAN
    /\ ignoreFile \in {Unreadable, File(<<"a">>)}
    /\ reportFile \in {UnreadableReport, InvalidReport}
                      \cup {ReportFile(d) : d \in {e \in SparseDocs :
                                                     e.has = TopFields /\ OneLack(e)}}

\* every kind of report file, readable or not, complete or not
InitLoad ==
    /\ args \in {PlainArgs(i) : i \in {"", "ignore"}}
    /\ canCreate = TRUE
    /\ ignoreFile \in {Unreadable, File(<<"a">>), File(<<"b">>)}
    /\ reportFile \in {UnreadableReport, InvalidReport}
                      \cup {ReportFile(d) : d \in {e \in SparseDocs : OneLack(e)}}

\* every document of the bounds, with and without keywords
InitRender ==
    /\ \/ args = PlainArgs("") /\ ignoreFile = Unreadable
       \/ args = PlainArgs("ignore") /\ ignoreFile \in IgnoreFiles
    /\ canCreate = TRUE
    /\ reportFile \in {ReportFile(d) : d \in FullDocs}

\* every ignore file of the bounds
InitIgnore ==
    /\ args = PlainArgs("ignore")
    /\ canCreate = TRUE
    /\ ignoreFile \in {File(c) : c \in BoundedSeqs(IgnoreAlphabet, MaxFileLen)}
                      \cup {ExampleFile}
    /\ reportFile = ReportFile(Doc(TopFields, dhatVersion,
                                   <<SiteDoc(SiteFields, 1, <<0, 1>>),
                                     SiteDoc(SiteFields, 2, <<1>>)>>, PlainTable))

Init ==
    /\ InitArgs \/ InitLoad \/ InitRender \/ InitIgnore
    /\ results = [h \in BOOLEAN |-> NoResult]

\* one execution of the program, with -html (outputHtml) or without
Run(outputHtml) ==
    /\ ~results[outputHtml].ran
    /\ results' = [results EXCEPT
                     ![outputHtml] = main(args, outputHtml, ignoreFile, reportFile,
                                          canCreate)]
    /\ UNCHANGED <<args, ignoreFile, reportFile, canCreate>>

Next == \E outputHtml \in BOOLEAN : Run(outputHtml)

Spec == Init /\ [][Next]_vars

\* ------------------------------------------------------------------------
\* Vocabulary of the properties
\* ------------------------------------------------------------------------
\* the decoded document of the report file
TheReport == Report(reportFile.doc)

NumSites == Len(TheReport.ProgramPoints)

FramesOf(i) == At0(TheReport.ProgramPoints, i).Frames

\* the command line asks for a report and nothing stops the run before the
\* ignore file is read
PlainStart ==
    /\ args.parse = "ok"
    /\ ~args.printVersion
    /\ args.narg = 1
    /\ ~(args.cpuProfile /\ ~canCreate)

IgnoreReadable == args.i = "" \/ ignoreFile.readable

Decodes == reportFile.readable /\ reportFile.valid

\* the run reaches the rendering of the report
Renders == PlainStart /\ IgnoreReadable /\ Decodes /\ TheReport.Version = dhatVersion

\* a frame reference of the document that cannot be resolved
Faulty(idx) ==
    \/ ~InRange(TheReport.FramesTable, idx)
    \/ ~Contains(At0(TheReport.FramesTable, idx), Sep)

FaultySite(i) == \E k \in 0..(Len(FramesOf(i)) - 1) : Faulty(At0(FramesOf(i), k))

ValidReport == \A i \in 0..(NumSites - 1) : ~FaultySite(i)

\* the text of a frame-table entry after its first ": "
AfterFirst(entry) == SubSeq(entry, Index(entry, Sep) + Len(Sep), Len(entry))

\* the lines of a run that open a site, as <<display counter, program point>>
SiteLines(res) ==
    LET IsHead(l) == l.kind \in {"allocation", "details"}
        heads == SelectSeq(res.stdout, IsHead)
    IN [k \in 1..Len(heads) |-> <<heads[k].n, heads[k].pp>>]

\* the program points a run wrote a site for
Shown(res) ==
    {res.stdout[k].pp :
       k \in {j \in 1..Len(res.stdout) : res.stdout[j].kind \in {"allocation", "details"}}}

\* the statistics lines of a run, as <<bytes, blocks, program point>>
StatLines(res) ==
    LET IsStat(l) == l.kind = "stats"
        stats == SelectSeq(res.stdout, IsStat)
    IN [k \in 1..Len(stats) |-> <<stats[k].n, stats[k].m, stats[k].pp>>]

\* the texts of the frame lines a run wrote for program point i
FrameTexts(res, i) ==
    LET IsFrame(l) == l.kind = "frame" /\ l.pp = i
        lines == SelectSeq(res.stdout, IsFrame)
    IN [k \in 1..Len(lines) |-> lines[k].text]

\* the site of program point i was written to its end
Complete(res, i) == i \in Shown(res) /\ ~FaultySite(i)

\* what a frame symbol looks like in the output of the format
Shape(outputHtml, sym) == IF outputHtml THEN EscapeString(sym) ELSE sym

\* ------------------------------------------------------------------------
\* C2: on a valid report and with an empty or absent ignore list, every
\* program point is written exactly once, in input order, with the display
\* counters 1..N, and the run succeeds.
\* ------------------------------------------------------------------------
C2_EveryPointNumbered ==
    \A h \in BOOLEAN :
        (results[h].ran /\ Renders /\ ValidReport /\ results[h].ignoreList = <<>>)
        => /\ results[h].exit = 0
           /\ SiteLines(results[h]) = [k \in 1..NumSites |-> <<k, k - 1>>]
           /\ StatLines(results[h])
              = [k \in 1..NumSites |->
                   <<TheReport.ProgramPoints[k].TotalBytes,
                     TheReport.ProgramPoints[k].TotalBlocks, k - 1>>]

C2_Witness ==
    \E h \in BOOLEAN :
        /\ results[h].ran /\ Renders /\ ValidReport
        /\ results[h].ignoreList = <<>>
        /\ args.i # ""
        /\ NumSites >= 2
        /\ Len(SiteLines(results[h])) = NumSites

\* ------------------------------------------------------------------------
\* C7: the frame lines of every site written to its end are the resolved
\* frames of fs from its last element to its first, one line per element,
\* duplicates kept (escaped in HTML mode); the lines of a site the run
\* stopped in are the first lines of that sequence.
\* ------------------------------------------------------------------------
ReversedFrames(h, i) ==
    LET fs == FramesOf(i)
    IN [k \in 1..Len(fs) |-> Shape(h, GetFrame(TheReport, At0(fs, Len(fs) - k)).val)]

C7_FramesReversed ==
    \A h \in BOOLEAN :
        (results[h].ran /\ Renders)
        => \A i \in Shown(results[h]) :
             LET texts == FrameTexts(results[h], i)
             IN /\ Len(texts) <= Len(FramesOf(i))
                /\ texts = SubSeq(ReversedFrames(h, i), 1, Len(texts))
                /\ Complete(results[h], i) => Len(texts) = Len(FramesOf(i))

C7_Witness ==
    \E h \in BOOLEAN :
        /\ results[h].ran /\ Renders
        /\ \E i \in Shown(results[h]) :
             /\ Complete(results[h], i)
             /\ Len(FramesOf(i)) = 3
             /\ At0(FramesOf(i), 0) # At0(FramesOf(i), 2)
             /\ At0(FramesOf(i), 1) = At0(FramesOf(i), 2)
             /\ FrameTexts(results[h], i)[1] # FrameTexts(results[h], i)[3]

\* ------------------------------------------------------------------------
\* C8: with a non-empty path the keyword list is, in file order, the lines
\* of the file that are non-empty and do not start with '#' once leading
\* and trailing spaces and tabs are removed, each keyword being the trimmed
\* line; with an empty path the list is empty and no site is filtered out.
\* ------------------------------------------------------------------------
RECURSIVE Join(_)
Join(lines) ==
    IF Len(lines) = 1 THEN lines[1] ELSE lines[1] \o <<NL>> \o Join(Tail(lines))

\* the lines of a text: the pieces between its newlines
LinesOf(content) ==
    LET n == Cardinality({k \in 1..Len(content) : content[k] = NL})
        cut == [j \in 0..(n + 1) |->
                  IF j = 0 THEN 0
                  ELSE IF j = n + 1 THEN Len(content) + 1
                  ELSE CHOOSE k \in 1..Len(content) :
                         /\ content[k] = NL
                         /\ Cardinality({m \in 1..k : content[m] = NL}) = j]
    IN [j \in 1..(n + 1) |-> SubSeq(content, cut[j - 1] + 1, cut[j] - 1)]

SpaceTab == {" ", "\t"}

\* t is line without its leading and trailing spaces and tabs
IsTrimOf(t, line) ==
    \E a \in 1..(Len(line) + 1) :
        /\ a + Len(t) - 1 <= Len(line)
        /\ t = SubSeq(line, a, a + Len(t) - 1)
        /\ \A k \in 1..(a - 1) : line[k] \in SpaceTab
        /\ \A k \in (a + Len(t))..Len(line) : line[k] \in SpaceTab
        /\ t # <<>> => (t[1] \notin SpaceTab /\ t[Len(t)] \notin SpaceTab)

IsKeyword(t) == t # <<>> /\ t[1] # "#"

\* list is made of the trimmed lines that are keywords, in the order of lines
RECURSIVE IsKeywordList(_, _)
IsKeywordList(list, lines) ==
    IF lines = <<>>
    THEN list = <<>>
    ELSE \/ /\ list # <<>>
            /\ IsTrimOf(Head(list), Head(lines))
            /\ IsKeyword(Head(list))
            /\ IsKeywordList(Tail(list), Tail(lines))
         \/ /\ \E a \in 1..(Len(Head(lines)) + 1) :
                  \E b \in (a - 1)..Len(Head(lines)) :
                     LET t == SubSeq(Head(lines), a, b)
                     IN IsTrimOf(t, Head(lines)) /\ ~IsKeyword(t)
            /\ IsKeywordList(list, Tail(lines))

C8_KeywordsAreTrimmedLines ==
    \A h \in BOOLEAN :
        (results[h].ran /\ PlainStart /\ IgnoreReadable /\ Decodes)
        => LET list == results[h].ignoreList
           IN /\ args.i = "" => list = <<>>
              /\ args.i # "" => IsKeywordList(list, LinesOf(ignoreFile.content))
              /\ \A k \in 1..Len(list) :
                   /\ list[k] # <<>>
                   /\ list[k][1] \notin SpaceTab \cup {"#"}
                   /\ list[k][Len(list[k])] \notin SpaceTab
              /\ (args.i = "" /\ Renders /\ ValidReport)
                 => Shown(results[h]) = 0..(NumSites - 1)

C8_Witness ==
    \E h \in BOOLEAN :
        /\ results[h].ran /\ PlainStart /\ Decodes
        /\ args.i # ""
        /\ ignoreFile = ExampleFile
        /\ results[h].ignoreList = << <<"f", "o", "o">>, <<"b", "a", "r">> >>

\* ------------------------------------------------------------------------
\* C3 as stated: a report whose dhatFileVersion is not 2 makes the run fail
\* with the unsupported-version error and write nothing to stdout, whatever
\* the output format and the ignore file.
\* ------------------------------------------------------------------------
C3_VersionErrorWhateverIgnoreFile ==
    \A h \in BOOLEAN :
        (results[h].ran /\ PlainStart /\ Decodes /\ TheReport.Version # dhatVersion)
        => /\ results[h].err = "version"
           /\ results[h].stdout = <<>>

\* C3 as amended: such a report makes the run fail with exit code 1 and
\* write nothing to stdout, whatever the output format and the ignore
\* file; the error is the unsupported-version error when the ignore file is
\* absent or readable, and the I/O error of the ignore file when it cannot
\* be read, because the ignore file is read before the report.
C3_VersionErrorAfterIgnoreFile ==
    \A h \in BOOLEAN :
        (results[h].ran /\ PlainStart /\ Decodes /\ TheReport.Version # dhatVersion)
        => /\ results[h].stdout = <<>>
           /\ results[h].exit = 1
           /\ IgnoreReadable => results[h].err = "version"
           /\ ~IgnoreReadable => results[h].err = "io"

C3_Witness ==
    /\ results[TRUE].ran /\ PlainStart /\ Decodes
    /\ TheReport.Version = dhatVersion + 1
    /\ args.i # "" /\ ignoreFile.readable
    /\ results[TRUE].err = "version"
    /\ results[TRUE].stdout = <<>>

\* ------------------------------------------------------------------------
\* C9 as stated: a document that lacks a mandatory field of Report or of a
\* program point fails to load with a decode error, before any output.
\* ------------------------------------------------------------------------
Lacking ==
    (TopFields \ reportFile.doc.has)
    \cup UNION {SiteFields \ reportFile.doc.pps[k].has :
                  k \in 1..Len(reportFile.doc.pps)}

C9_MissingFieldIsDecodeError ==
    \A h \in BOOLEAN :
        (results[h].ran /\ PlainStart /\ IgnoreReadable /\ Decodes /\ Lacking # {})
        => /\ results[h].err = "decode"
           /\ results[h].stdout = <<>>

\* C9 as amended: loading fails with a decode error, before any output,
\* only when the document cannot be decoded; a mandatory field the document
\* lacks is no error and takes its zero value.  So a document without
\* dhatFileVersion has version 0 and is rejected with the unsupported-
\* version error before any output, and a version-2 document that lacks
\* another field is rendered with 0, the empty string or the empty list in
\* its place (without ftbl every frame reference is out of range).
FirstLine(res, kind) ==
    LET IsKind(l) == l.kind = kind
    IN Head(SelectSeq(res.stdout, IsKind))

C9_MissingFieldIsZero ==
    \A h \in BOOLEAN :
        (results[h].ran /\ PlainStart /\ IgnoreReadable /\ reportFile.readable)
        => LET res == results[h]
               Lacks(f) == Decodes /\ f \in Lacking
               Version2 == Decodes /\ TheReport.Version = dhatVersion
           IN /\ res.err = "decode" <=> ~reportFile.valid
              /\ res.err = "decode" => res.stdout = <<>>
              /\ Lacks("dhatFileVersion") => (res.err = "version" /\ res.stdout = <<>>)
              /\ (Version2 /\ ValidReport) => res.err = "nil"
              /\ Version2 =>
                   /\ Lacks("cmd") => FirstLine(res, "Command").text = <<>>
                   /\ Lacks("pid") => FirstLine(res, "PID").n = 0
                   /\ Lacks("mode") => FirstLine(res, "Mode").text = <<>>
                   /\ Lacks("te") => FirstLine(res, "t-end").n = 0
                   /\ Lacks("tu") => FirstLine(res, "t-end").text = <<>>
                   /\ Lacks("pps") => SiteLines(res) = <<>>
                   /\ ~Lacks("cmd") => FirstLine(res, "Command").text = DocValues.cmd
                   /\ (Lacks("tb") /\ 0 \in Shown(res)) => StatLines(res)[1][1] = 0
                   /\ (Lacks("tbk") /\ 0 \in Shown(res)) => StatLines(res)[1][2] = 0
                   /\ Lacks("fs") => (0 \in Shown(res) /\ FrameTexts(res, 0) = <<>>)
                   /\ Lacks("ftbl") => (res.err = "panic" /\ FrameTexts(res, 0) = <<>>)

C9_Witness ==
    \E h \in BOOLEAN :
        /\ results[h].ran /\ PlainStart /\ IgnoreReadable /\ Decodes
        /\ Lacking = {"cmd"}
        /\ results[h].err = "nil"
        /\ FirstLine(results[h], "Command").text = <<>>
        /\ Len(SiteLines(results[h])) = 2

\* ------------------------------------------------------------------------
\* C10: the output format does not influence filtering or counting.  The
\* run with -html and the run without, on the same files and command line,
\* end the same way, write the same sites with the same display counters
\* and statistics, and the same frames in the same order, the HTML frame
\* text being the escaped text of the text run; sites are filtered on the
\* unescaped symbol in both.
\* ------------------------------------------------------------------------
\* a keyword of the list occurs in an unescaped symbol of program point i
MatchesSymbol(i, list) ==
    \E k \in 1..Len(FramesOf(i)) : \E w \in 1..Len(list) :
        Contains(GetFrame(TheReport, FramesOf(i)[k]).val, list[w])

MetaLines(res) ==
    LET IsMeta(l) == l.kind \in {"Command", "PID", "Mode", "t-end", "version"}
    IN SelectSeq(res.stdout, IsMeta)

C10_FormatDoesNotFilter ==
    (results[TRUE].ran /\ results[FALSE].ran)
    => LET html == results[TRUE]
           text == results[FALSE]
       IN /\ html.err = text.err
          /\ html.exit = text.exit
          /\ html.stderr = text.stderr
          /\ html.ignoreList = text.ignoreList
          /\ MetaLines(html) = MetaLines(text)
          /\ SiteLines(html) = SiteLines(text)
          /\ StatLines(html) = StatLines(text)
          /\ \A i \in Shown(text) :
               FrameTexts(html, i)
               = [k \in 1..Len(FrameTexts(text, i)) |->
                    EscapeString(FrameTexts(text, i)[k])]
          /\ (Renders /\ ValidReport)
             => Shown(html) = {i \in 0..(NumSites - 1) : ~MatchesSymbol(i, html.ignoreList)}

C10_Witness ==
    /\ results[TRUE].ran /\ results[FALSE].ran
    /\ Renders /\ ValidReport
    /\ results[TRUE].ignoreList = << <<"&">> >>
    /\ \E i \in Shown(results[TRUE]) :
         FrameTexts(results[TRUE], i) # FrameTexts(results[FALSE], i)
    /\ Shown(results[TRUE]) = 0..(NumSites - 1)

\* ------------------------------------------------------------------------
\* C1: on a valid report and with a non-empty ignore list, a program point
\* is left out of the output iff the text after the first ": " of one of
\* its frame-table entries contains a keyword, and the display counters of
\* the sites written are 1, 2, ... without a gap.
\* ------------------------------------------------------------------------
\* a keyword of the list occurs after the first ": " of an entry of point i
MatchesAfterFirst(i, list) ==
    \E k \in 1..Len(FramesOf(i)) : \E w \in 1..Len(list) :
        Contains(AfterFirst(At0(TheReport.FramesTable, FramesOf(i)[k])), list[w])

C1_OmittedIffKeywordInEntry ==
    \A h \in BOOLEAN :
        (results[h].ran /\ Renders /\ ValidReport /\ results[h].ignoreList # <<>>)
        => /\ \A i \in 0..(NumSites - 1) :
                i \notin Shown(results[h]) <=> MatchesAfterFirst(i, results[h].ignoreList)
           /\ \A k \in 1..Len(SiteLines(results[h])) : SiteLines(results[h])[k][1] = k

\* ------------------------------------------------------------------------
\* C4: a frame is resolved to the whole text that follows the first ": "
\* of its frame-table entry, when frames are written (GetFrame) and when
\* keywords are matched (ProgramPointHasFrame).
\* ------------------------------------------------------------------------
C4_ResolvesToTextAfterFirstSeparator ==
    \A h \in BOOLEAN :
        (results[h].ran /\ Renders /\ ValidReport)
        => /\ \A i \in Shown(results[h]) :
                FrameTexts(results[h], i)
                = [k \in 1..Len(FramesOf(i)) |->
                     Shape(h, AfterFirst(At0(TheReport.FramesTable,
                                             At0(FramesOf(i), Len(FramesOf(i)) - k))))]
           /\ \A i \in 0..(NumSites - 1) : \A w \in 1..Len(results[h].ignoreList) :
                LET s == results[h].ignoreList[w]
                IN ProgramPointHasFrame(TheReport, i, s) = "true"
                   <=> MatchesAfterFirst(i, <<s>>)

\* ------------------------------------------------------------------------
\* C5: every failure of a run is printed on stderr with the "error:"
\* prefix and ends the process with exit code 1, a frame reference that
\* cannot be resolved included.
\* ------------------------------------------------------------------------
C5_EveryFailureIsAnError ==
    \A h \in BOOLEAN :
        (results[h].ran /\ results[h].err # "nil")
        => /\ results[h].exit = 1
           /\ results[h].stderr # <<>>
           /\ results[h].stderr[Len(results[h].stderr)].prefix = "error:"

\* ------------------------------------------------------------------------
\* C6 as stated: a frame reference that cannot be resolved makes the run
\* fail only if it belongs to a site that is written; a report in which
\* every site holding such a reference has another frame, at any position
\* of fs, that matches a keyword succeeds and writes the remaining sites.
\* ------------------------------------------------------------------------
\* a resolvable frame of program point i, anywhere in fs, matches a keyword
MatchesSomewhere(i, list) ==
    \E k \in 1..Len(FramesOf(i)) : \E w \in 1..Len(list) :
        /\ ~Faulty(FramesOf(i)[k])
        /\ Contains(GetFrame(TheReport, FramesOf(i)[k]).val, list[w])

C6_FaultySiteIgnoredAnywhere ==
    \A h \in BOOLEAN :
        (results[h].ran /\ Renders)
        => LET list == results[h].ignoreList
           IN /\ results[h].err = "panic"
                 => \E i \in Shown(results[h]) : FaultySite(i)
              /\ (\A i \in 0..(NumSites - 1) : FaultySite(i) => MatchesSomewhere(i, list))
                 => /\ results[h].err = "nil"
                    /\ Shown(results[h])
                       = {i \in 0..(NumSites - 1) : ~MatchesSomewhere(i, list)}

\* C6 as amended: a frame reference that cannot be resolved makes the run
\* fail when it is resolved, and filtering resolves the frames of a site in
\* fs order for the first keyword, up to the first frame that matches it.
\* So a site holding such a reference is skipped without failure only when
\* a frame that precedes its first faulty frame in fs matches the first
\* keyword of the ignore list.  A report in which every site holding a
\* faulty frame is skipped in that way succeeds and writes the remaining
\* sites; otherwise the run stops at the first site that is not: while
\* filtering it when there are keywords, while writing it when there are
\* none.
FirstFaulty(i) ==
    CHOOSE k \in 1..Len(FramesOf(i)) :
        /\ Faulty(FramesOf(i)[k])
        /\ \A m \in 1..(k - 1) : ~Faulty(FramesOf(i)[m])

SkippedBeforeFault(i, list) ==
    /\ FaultySite(i)
    /\ list # <<>>
    /\ \E m \in 1..(FirstFaulty(i) - 1) :
         Contains(GetFrame(TheReport, FramesOf(i)[m]).val, list[1])

C6_FaultySiteIgnoredBeforeFault ==
    \A h \in BOOLEAN :
        (results[h].ran /\ Renders)
        => LET list == results[h].ignoreList
               sites == 0..(NumSites - 1)
               faulty == {i \in sites : FaultySite(i)}
               stops == {i \in faulty : ~SkippedBeforeFault(i, list)}
               passes == {i \in sites \ faulty : ~MatchesSymbol(i, list)}
           IN IF stops = {}
              THEN /\ results[h].err = "nil"
                   /\ Shown(results[h]) = passes
              ELSE LET b == CHOOSE i \in stops : \A j \in stops : i <= j
                   IN /\ results[h].err = "panic"
                      /\ Shown(results[h])
                         = {i \in passes : i < b} \cup (IF list = <<>> THEN {b} ELSE {})

C6_Witness ==
    \E h \in BOOLEAN :
        /\ results[h].ran /\ Renders
        /\ results[h].err = "nil"
        /\ \E i \in 0..(NumSites - 1) : SkippedBeforeFault(i, results[h].ignoreList)
        /\ Shown(results[h]) # {}

====
